---- MODULE Spec2Model ----
(***************************************************************************)
(* A model of the organizer-dashboard layer of eventyay-tickets:           *)
(*   - pretix/eventyay_common/views/dashboards.py  (widget ranking, the    *)
(*     event query builder, the dashboard buckets, the event index)        *)
(*   - pretix/eventyay_common/context.py           (context enrichment)    *)
(* Each group of operations has its own specification over the shared      *)
(* variables; the variables a specification does not use stay at their     *)
(* idle values.                                                            *)
(***************************************************************************)
EXTENDS Integers, Sequences, FiniteSets, TLC

VARIABLES
    widgets,    \* rearrange: the list handed to rearrange
    ranked,     \* rearrange: [done, out], the list rearrange returned
    request,    \* the request: path class, scope, permission, query parameter
    event,      \* request.event: live, testmode, domain, orders, sub-occurrences
    cache,      \* request.event.cache entry 'complain_testmode_orders'
    session,    \* request.session: session_key, child_session_<pk>, event_access
    memo,       \* request._eventyay_common_default_context: [has, ctx]
    returned,   \* the context the last call returned
    calls,      \* number of calls made on this request
    effects,    \* side effects counted so far on this request
    events,     \* the events visible to the user (sequence indexed by pk)
    clock,      \* the wall clock
    dash,       \* the last dashboard response
    index,      \* the last event index response
    perms,      \* the event permissions the user holds besides can_view_orders
    shop,       \* the event's rows the index reads: signal widgets, log, actions, orders
    race        \* the concurrent requests recomputing the cache entry

vars == <<widgets, ranked, request, event, cache, session, memo, returned,
          calls, effects, events, clock, dash, index, perms, shop, race>>

(***************************************************************************)
(* Bounds                                                                  *)
(***************************************************************************)
MaxWidgets == 3

MaxParamLen == 2

MaxCalls == 2

MaxEvents == 1

MaxListed == 9

MaxDrift == 1

\* log entries of an event
MaxLogs == 2

\* concurrent requests recomputing the cache entry
MaxRacers == 2

\* creations and deletions of test-mode orders during a race
MaxChanges == 2

\* the display counts of the three buckets
UpcomingMax == 7

PastMax == 8

SeriesMax == 8

\* the lengths of the two feeds of the event index
LogsMax == 5

ActionsMax == 5

(***************************************************************************)
(* Python values                                                           *)
(***************************************************************************)
\* None, for values that are strings otherwise
None == "None"

\* None (SQL NULL), for values that are integers otherwise
NULL == -1

Range(s) == {s[i] : i \in DOMAIN s}

SeqsUpTo(S, n) == UNION {[1..k -> S] : k \in 0..n}

(***************************************************************************)
(* Widget Ranker: dashboards.py, rearrange                                 *)
(***************************************************************************)
\* A widget descriptor is a dict; keys holds the keys that are present.
\* id is the identity of the dict object (its position in the input).
Priorities == {1, 2}

DisplaySizes == {"small", "big", "full", "huge"}

WidgetShapes ==
    {[keys |-> ks,
      priority |-> IF "priority" \in ks THEN p ELSE 0,
      display_size |-> IF "display_size" \in ks THEN d ELSE ""] :
        ks \in SUBSET {"priority", "display_size"},
        p \in Priorities, d \in DisplaySizes}

WidgetLists ==
    {[i \in 1..Len(s) |-> [id |-> i, keys |-> s[i].keys,
                           priority |-> s[i].priority,
                           display_size |-> s[i].display_size]] :
        s \in SeqsUpTo(WidgetShapes, MaxWidgets)}

\* a mapping that ranks an unknown size above 'full' instead of falling back to 1
mapping_get_unknown_high(size) ==
    CASE size = "small" -> 1
      [] size = "big" -> 2
      [] size = "full" -> 3
      [] OTHER -> 4

\* mapping.get(size, 1)
mapping_get(size) ==
    CASE size = "small" -> 1
      [] size = "big" -> 2
      [] size = "full" -> 3
      [] OTHER -> 1

\* element.get('priority', 1)
get_priority(element) ==
    IF "priority" \in element.keys THEN element.priority ELSE 1

\* element.get('display_size', 'small')
get_display_size(element) ==
    IF "display_size" \in element.keys THEN element.display_size ELSE "small"

sort_key(element) ==
    <<get_priority(element), mapping_get(get_display_size(element))>>

\* Python's ordering of two tuples of integers
TupleLess(a, b) == a[1] < b[1] \/ (a[1] = b[1] /\ a[2] < b[2])

\* sorted(..., reverse=True) is stable: an element goes after every element
\* already placed whose key is not smaller than its own.
RECURSIVE InsertDesc(_, _)
InsertDesc(x, s) ==
    IF s = <<>> THEN <<x>>
    ELSE IF TupleLess(sort_key(s[1]), sort_key(x)) THEN <<x>> \o s
    ELSE <<s[1]>> \o InsertDesc(x, Tail(s))

\* sorted(...)[::-1] instead: equal keys come out in reverse order
RECURSIVE InsertDescUnstable(_, _)
InsertDescUnstable(x, s) ==
    IF s = <<>> THEN <<x>>
    ELSE IF ~TupleLess(sort_key(x), sort_key(s[1])) THEN <<x>> \o s
    ELSE <<s[1]>> \o InsertDescUnstable(x, Tail(s))

RECURSIVE SortedDescFrom(_, _)
SortedDescFrom(ws, acc) ==
    IF ws = <<>> THEN acc
    ELSE SortedDescFrom(Tail(ws), InsertDesc(ws[1], acc))

RECURSIVE SortedUnstableFrom(_, _)
SortedUnstableFrom(ws, acc) ==
    IF ws = <<>> THEN acc
    ELSE SortedUnstableFrom(Tail(ws), InsertDescUnstable(ws[1], acc))

rearrange_unstable(ws) == SortedUnstableFrom(ws, <<>>)

rearrange(ws) == SortedDescFrom(ws, <<>>)

(***************************************************************************)
(* Context Enrichment: context.py                                          *)
(***************************************************************************)
\* The request: path is how request.path resolves ("unresolvable": resolve()
\* raises Resolver404; "outside": resolves, not under <script prefix>common;
\* "common": under it). scope is what the middleware attached: no user, a
\* user, a user and an event, a user, an event and an organizer.
\* subevent is the query parameter, a string (a sequence of characters).
Paths == {"unresolvable", "outside", "common"}

Scopes == {"anonymous", "user", "event", "event_organizer"}

Chars == {"1", "2", "a", " "}

ParamStrings == SeqsUpTo(Chars, MaxParamLen)

SessionKeys == {"k1", "k2"}

\* the primary keys of the event's sub-occurrences
SubEventPks == {1}

CacheMiss == [hit |-> FALSE, value |-> FALSE]

CacheOf(v) == [hit |-> TRUE, value |-> v]

CacheStates == {CacheMiss, CacheOf(TRUE), CacheOf(FALSE)}

\* a context dict: keys holds the keys that are present
EmptyCtx == [keys |-> {}, nav_items |-> None, complain_testmode_orders |-> FALSE,
             has_domain |-> FALSE, new_session |-> None, selected_subevents |-> {}]

NoEffects == [session_writes |-> 0, cache_reads |-> 0, cache_writes |-> 0,
              db_queries |-> 0, logged |-> 0, runs |-> 0, raised |-> None]

\* str.strip()
RECURSIVE lstrip(_)
lstrip(s) == IF s # <<>> /\ s[1] = " " THEN lstrip(Tail(s)) ELSE s

RECURSIVE rstrip(_)
rstrip(s) ==
    IF s # <<>> /\ s[Len(s)] = " " THEN rstrip(SubSeq(s, 1, Len(s) - 1)) ELSE s

strip(s) == rstrip(lstrip(s))

DigitValue(c) == IF c = "1" THEN 1 ELSE IF c = "2" THEN 2 ELSE NULL

RECURSIVE DigitsValue(_, _)
DigitsValue(s, acc) ==
    IF s = <<>> THEN acc ELSE DigitsValue(Tail(s), 10 * acc + DigitValue(s[1]))

\* int(s): [ok, value]; not ok stands for ValueError. int() itself skips
\* surrounding whitespace and wants at least one digit and digits only.
int(s) ==
    LET t == strip(s)
    IN IF t # <<>> /\ \A i \in DOMAIN t : DigitValue(t[i]) # NULL
       THEN [ok |-> TRUE, value |-> DigitsValue(t, 0)]
       ELSE [ok |-> FALSE, value |-> NULL]

\* the test-mode block deciding on event.live instead of event.testmode
TestmodeBlockOnLive(req, ev, ca, eff) ==
    IF ~ev.live
    THEN LET miss == ~ca.hit
             complain == IF miss THEN ev.testmode_orders ELSE ca.value
         IN [cache |-> IF miss THEN CacheOf(complain) ELSE ca,
             effects |-> [eff EXCEPT !.cache_reads = @ + 1,
                                     !.db_queries = @ + (IF miss THEN 1 ELSE 0),
                                     !.cache_writes = @ + (IF miss THEN 1 ELSE 0)],
             value |-> complain /\ req.can_view_orders]
    ELSE [cache |-> ca, effects |-> eff, value |-> FALSE]

\* lines 79-98: the test-mode warning flag
\* [cache, effects, value] after the block, from the context built so far
TestmodeBlock(req, ev, ca, eff) ==
    IF ~ev.testmode
    THEN LET miss == ~ca.hit
             complain == IF miss THEN ev.testmode_orders ELSE ca.value
         IN [cache |-> IF miss THEN CacheOf(complain) ELSE ca,
             effects |-> [eff EXCEPT !.cache_reads = @ + 1,
                                     !.db_queries = @ + (IF miss THEN 1 ELSE 0),
                                     !.cache_writes = @ + (IF miss THEN 1 ELSE 0)],
             value |-> complain /\ req.can_view_orders]
    ELSE [cache |-> ca, effects |-> eff, value |-> FALSE]

\* the child-session block storing the current session key on every request
ChildSessionBlockOverwrite(ev, se, eff, ctx) ==
    IF ~ev.live /\ ctx.has_domain
    THEN LET child_sess == se.child_session
         IN [session |-> [se EXCEPT !.child_session = se.session_key,
                                    !.event_access = TRUE],
             effects |-> [eff EXCEPT !.session_writes = @ + 2],
             ctx |-> IF child_sess = None THEN ctx
                     ELSE [ctx EXCEPT !.keys = @ \cup {"new_session"},
                                      !.new_session = child_sess]]
    ELSE [session |-> se, effects |-> eff, ctx |-> ctx]

\* lines 100-108: child-session propagation; [session, effects, ctx]
ChildSessionBlock(ev, se, eff, ctx) ==
    IF ~ev.live /\ ctx.has_domain
    THEN LET child_sess == se.child_session
         IN [session |-> [se EXCEPT
                 !.child_session = IF child_sess = None THEN se.session_key ELSE @,
                 !.event_access = TRUE],
             effects |-> [eff EXCEPT !.session_writes =
                                @ + (IF child_sess = None THEN 2 ELSE 1)],
             ctx |-> IF child_sess = None THEN ctx
                     ELSE [ctx EXCEPT !.keys = @ \cup {"new_session"},
                                      !.new_session = child_sess]]
    ELSE [session |-> se, effects |-> eff, ctx |-> ctx]

\* the block of lines 109-118 without the except clause: ValueError leaves
\* _default_context
SubeventBlockUncaught(req, ev, eff, ctx) ==
    IF req.subevent # <<>>
    THEN LET parsed == int(strip(req.subevent))
         IN IF parsed.ok
            THEN [effects |-> eff,
                  ctx |-> [ctx EXCEPT !.keys = @ \cup {"selected_subevents"},
                                      !.selected_subevents =
                                          {pk \in ev.subevents : pk = parsed.value}]]
            ELSE [effects |-> [eff EXCEPT !.raised = "ValueError"], ctx |-> EmptyCtx]
    ELSE [effects |-> eff, ctx |-> ctx]

\* lines 109-118: the sub-occurrence selection; [effects, ctx]
SubeventBlock(req, ev, eff, ctx) ==
    IF req.subevent # <<>>
    THEN LET parsed == int(strip(req.subevent))
         IN IF parsed.ok
            THEN [effects |-> eff,
                  ctx |-> [ctx EXCEPT !.keys = @ \cup {"selected_subevents"},
                                      !.selected_subevents =
                                          {pk \in ev.subevents : pk = parsed.value}]]
            ELSE [effects |-> [eff EXCEPT !.logged = @ + 1], ctx |-> ctx]
    ELSE [effects |-> eff, ctx |-> ctx]

\* lines 37-120 of _default_context: the context of a request under the
\* prefix; [ctx, cache, session, effects]
build_context(req, ev, ca, se, eff) ==
    LET unchanged == [ctx |-> EmptyCtx, cache |-> ca, session |-> se, effects |-> eff]
        base == [EmptyCtx EXCEPT !.keys = {"url_name", "settings", "django_settings",
                                             "DEBUG", "talk_hostname", "global_settings"}]
    IN IF req.scope = "anonymous"
       THEN [unchanged EXCEPT !.ctx = base]
       ELSE
        LET user == [base EXCEPT
                       !.keys = @ \cup {"nav_items", "staff_session",
                                        "staff_need_to_explain"},
                       !.nav_items = "global"]
            effU == [eff EXCEPT !.db_queries = @ + 1]
        IN IF req.scope = "user"
           THEN [unchanged EXCEPT !.ctx = user, !.effects = effU]
           ELSE
            LET evc == [user EXCEPT
                          !.keys = @ \cup {"talk_edit_url", "is_video_enabled",
                                           "is_talk_event_created"}]
            IN IF req.scope = "event"
               THEN [unchanged EXCEPT !.ctx = evc, !.effects = effU]
               ELSE
                LET tm == TestmodeBlock(req, ev, ca, effU)
                    org == [evc EXCEPT
                              !.keys = @ \cup {"has_domain", "complain_testmode_orders"},
                              !.nav_items = "event",
                              !.has_domain = ev.has_domain,
                              !.complain_testmode_orders = tm.value]
                    cs == ChildSessionBlock(ev, se, tm.effects, org)
                    sub == SubeventBlock(req, ev, cs.effects, cs.ctx)
                IN [ctx |-> sub.ctx, cache |-> tm.cache, session |-> cs.session,
                    effects |-> sub.effects]

\* _default_context without the prefix test of line 35
default_context_any_prefix(req, ev, ca, se, eff0) ==
    LET eff == [eff0 EXCEPT !.runs = @ + 1]
    IN IF req.path = "unresolvable"
       THEN [ctx |-> EmptyCtx, cache |-> ca, session |-> se, effects |-> eff]
       ELSE build_context(req, ev, ca, se, eff)

\* _default_context(request): [ctx, cache, session, effects], the context it
\* returns and the cache, session and effect counts it leaves
default_context(req, ev, ca, se, eff0) ==
    LET eff == [eff0 EXCEPT !.runs = @ + 1]
        empty == [ctx |-> EmptyCtx, cache |-> ca, session |-> se, effects |-> eff]
    IN IF req.path = "unresolvable" THEN empty
       ELSE IF req.path # "common" THEN empty
       ELSE build_context(req, ev, ca, se, eff)

(***************************************************************************)
(* Event Query Builder and dashboard buckets: dashboards.py                *)
(***************************************************************************)
\* Instants are integers. An event row: date_from (never NULL), date_to (may
\* be NULL), has_subevents, and its sub-occurrences, each a pair of date_from
\* (never NULL) and date_to (may be NULL). The primary key of an event is
\* its index in events.
Dates == {1, 2, 3, 4}

DateRanges == {r \in [date_from : Dates, date_to : Dates \cup {NULL}] :
                  r.date_to = NULL \/ r.date_from <= r.date_to}

SubEventRows == {[date_from |-> 1, date_to |-> NULL], [date_from |-> 2, date_to |-> NULL],
                 [date_from |-> 1, date_to |-> 2]}

SingleEvents ==
    {[date_from |-> r.date_from, date_to |-> r.date_to, has_subevents |-> FALSE,
      subevents |-> {}] : r \in DateRanges}

SeriesEvents ==
    {[date_from |-> r.date_from, date_to |-> r.date_to, has_subevents |-> TRUE,
      subevents |-> subs] :
        r \in {[date_from |-> 4, date_to |-> NULL], [date_from |-> 3, date_to |-> 4]},
        subs \in SUBSET SubEventRows}

EventRows == SingleEvents \cup SeriesEvents

\* the database backends: GREATEST skips NULLs on PostgreSQL and returns NULL
\* when an argument is NULL on the others
Backends == {"postgresql", "other"}

\* the aggregate Max: NULLs are skipped, NULL when nothing is left
Max(vals) ==
    LET S == vals \ {NULL}
    IN IF S = {} THEN NULL ELSE CHOOSE m \in S : \A x \in S : x <= m

\* the aggregate Min
Min(vals) ==
    LET S == vals \ {NULL}
    IN IF S = {} THEN NULL ELSE CHOOSE m \in S : \A x \in S : m <= x

\* Greatest(a, b)
Greatest(db, a, b) ==
    IF db = "postgresql"
    THEN Max({a, b})
    ELSE IF a = NULL \/ b = NULL THEN NULL ELSE Max({a, b})

\* Coalesce(...): the first value that is not NULL
RECURSIVE Coalesce(_)
Coalesce(vals) ==
    IF vals = <<>> THEN NULL
    ELSE IF vals[1] # NULL THEN vals[1]
    ELSE Coalesce(Tail(vals))

\* the chain with the event's own dates ahead of its sub-occurrences' dates
order_to_own_first(max_fromto, max_to, max_from, date_to, date_from) ==
    Coalesce(<<date_to, date_from, max_fromto, max_to, max_from>>)

\* line 306: order_to
order_to(max_fromto, max_to, max_from, date_to, date_from) ==
    Coalesce(<<max_fromto, max_to, max_from, date_to, date_from>>)

\* lines 300-307: the annotations of one event row
Annotate(pk, e, db) ==
    LET min_from == Min({sub.date_from : sub \in e.subevents})
        max_from == Max({sub.date_from : sub \in e.subevents})
        max_to == Max({sub.date_to : sub \in e.subevents})
        max_fromto == Greatest(db, max_to, max_from)
    IN [pk |-> pk, date_from |-> e.date_from, date_to |-> e.date_to,
        has_subevents |-> e.has_subevents,
        min_from |-> min_from, max_from |-> max_from, max_to |-> max_to,
        max_fromto |-> max_fromto,
        order_to |-> order_to(max_fromto, max_to, max_from, e.date_to, e.date_from)]

\* annotated_event_query(request, lazy): the annotated rows of the events the
\* user may see, by primary key
annotated_event_query(evs, db) == [pk \in DOMAIN evs |-> Annotate(pk, evs[pk], db)]

\* lines 49-53 and 316-320: the 'upcoming' filter, with its two readings of now()
upcoming_filter(row, now1, now2) ==
    /\ ~row.has_subevents
    /\ \/ (row.date_to = NULL /\ row.date_from >= now1)
       \/ (row.date_to # NULL /\ row.date_to >= now2)

\* lines 63-67 and 328-332: the 'past' filter, with its two readings of now()
past_filter(row, now3, now4) ==
    /\ ~row.has_subevents
    /\ \/ (row.date_to = NULL /\ row.date_from < now3)
       \/ (row.date_to # NULL /\ row.date_to < now4)

\* lines 75-77 and 339-341: the 'series' filter
series_filter(row) == row.has_subevents

\* ORDER BY of a tuple of integer columns, ascending
RECURSIVE LexLess(_, _)
LexLess(a, b) ==
    IF a = <<>> THEN FALSE
    ELSE a[1] < b[1] \/ (a[1] = b[1] /\ LexLess(Tail(a), Tail(b)))

\* order_by('date_from', 'order_to', 'pk')
upcoming_key(row) == <<row.date_from, row.order_to, row.pk>>

\* order_by('-order_to', 'pk')
past_key(row) == <<0 - row.order_to, row.pk>>

\* ORDER BY: a row goes before the first row placed whose key is larger (the
\* keys end in pk, so no two are equal)
RECURSIVE InsertRow(_, _)
InsertRow(x, s) ==
    IF s = <<>> THEN <<x>>
    ELSE IF LexLess(x.key, s[1].key) THEN <<x>> \o s
    ELSE <<s[1]>> \o InsertRow(x, Tail(s))

RECURSIVE OrderBy(_, _)
OrderBy(keyed, acc) ==
    IF keyed = <<>> THEN acc
    ELSE OrderBy(Tail(keyed), InsertRow(keyed[1], acc))

Rows(ordered) == [i \in DOMAIN ordered |-> ordered[i].row]

\* the 'upcoming' queryset: filter, then order_by
upcoming_qs(rows, now1, now2) ==
    LET hits == SelectSeq(rows, LAMBDA r : upcoming_filter(r, now1, now2))
    IN Rows(OrderBy([i \in DOMAIN hits |-> [key |-> upcoming_key(hits[i]),
                                            row |-> hits[i]]], <<>>))

\* the 'past' queryset
past_qs(rows, now3, now4) ==
    LET hits == SelectSeq(rows, LAMBDA r : past_filter(r, now3, now4))
    IN Rows(OrderBy([i \in DOMAIN hits |-> [key |-> past_key(hits[i]),
                                            row |-> hits[i]]], <<>>))

\* the 'series' queryset
series_qs(rows) ==
    LET hits == SelectSeq(rows, series_filter)
    IN Rows(OrderBy([i \in DOMAIN hits |-> [key |-> past_key(hits[i]),
                                            row |-> hits[i]]], <<>>))

\* lines 230-265: the widget of one event
event_widget(row, lazy) ==
    [lazy |-> <<"event", row.pk>>, display_size |-> "small", priority |-> 100,
     rendered |-> ~lazy]

\* widgets_for_event_qs without the slice
widgets_for_event_qs_uncapped(qs, nmax, lazy) ==
    [i \in 1..Len(qs) |-> event_widget(qs[i], lazy)]

\* widgets_for_event_qs(request, qs, user, nmax, lazy): one widget per event
\* of qs[:nmax]
widgets_for_event_qs(qs, nmax, lazy) ==
    LET evs == SubSeq(qs, 1, IF Len(qs) < nmax THEN Len(qs) ELSE nmax)
    IN [i \in 1..Len(evs) |-> event_widget(evs[i], lazy)]

\* the three buckets of a dashboard, from the four readings of now()
Buckets(evs, db, lazy, now1, now2, now3, now4) ==
    LET rows == annotated_event_query(evs, db)
        up == upcoming_qs(rows, now1, now2)
        pa == past_qs(rows, now3, now4)
        se == series_qs(rows)
    IN [order_to |-> [pk \in DOMAIN rows |-> rows[pk].order_to],
        matched |-> [upcoming |-> {r.pk : r \in Range(up)},
                     past |-> {r.pk : r \in Range(pa)},
                     series |-> {r.pk : r \in Range(se)}],
        upcoming |-> widgets_for_event_qs(up, UpcomingMax, lazy),
        past |-> widgets_for_event_qs(pa, PastMax, lazy),
        series |-> widgets_for_event_qs(se, SeriesMax, lazy)]

(***************************************************************************)
(* Idle values of the variables                                            *)
(***************************************************************************)
IdleRequest == [path |-> "common", scope |-> "anonymous", can_view_orders |-> FALSE,
                subevent |-> <<>>]

IdleEvent == [live |-> FALSE, testmode |-> FALSE, has_domain |-> FALSE,
              testmode_orders |-> FALSE, has_subevents |-> FALSE, subevents |-> {}]

IdleSession == [session_key |-> "k1", child_session |-> None, event_access |-> FALSE]

IdleDash == [handler |-> None, order_to |-> <<>>,
             matched |-> [upcoming |-> {}, past |-> {}, series |-> {}],
             upcoming |-> <<>>, past |-> <<>>, series |-> <<>>, widgets |-> <<>>]

\* the template context of event_index before anything is put in it
IdleIndexCtx == [widgets |-> <<>>, logs |-> <<>>, actions |-> <<>>,
                 has_overpaid_orders |-> FALSE,
                 has_pending_orders_with_full_payment |-> FALSE,
                 has_pending_refunds |-> FALSE,
                 has_pending_approvals |-> FALSE,
                 has_cancellation_requests |-> FALSE]

IdleIndex == [handler |-> None, raised |-> None, subevent |-> NULL,
              built |-> FALSE, ctx |-> IdleIndexCtx]

RankIdle ==
    /\ widgets = <<>>
    /\ ranked = [done |-> FALSE, out |-> <<>>]

CtxIdle ==
    /\ request = IdleRequest
    /\ event = IdleEvent
    /\ cache = CacheMiss
    /\ session = IdleSession
    /\ memo = [has |-> FALSE, ctx |-> EmptyCtx]
    /\ returned = EmptyCtx
    /\ calls = 0
    /\ effects = NoEffects

DashIdle ==
    /\ events = <<>>
    /\ clock = 0
    /\ dash = IdleDash

IdleShop == [widgets |-> <<>>, logs |-> <<>>, required_actions |-> 0, facts |-> {}]

IdleRace == [procs |-> <<>>, writes |-> <<>>, history |-> <<>>]

IndexIdle ==
    /\ index = IdleIndex
    /\ perms = {}
    /\ shop = IdleShop

RaceIdle == race = IdleRace

(***************************************************************************)
(* Specification of the widget ranker                                      *)
(***************************************************************************)
RankInit ==
    /\ widgets \in WidgetLists
    /\ ranked = [done |-> FALSE, out |-> <<>>]
    /\ CtxIdle /\ DashIdle /\ IndexIdle /\ RaceIdle

\* a call rearrange(widgets); the argument is left as it is
Rearrange ==
    /\ ~ranked.done
    /\ ranked' = [done |-> TRUE, out |-> rearrange(widgets)]
    /\ UNCHANGED <<widgets, request, event, cache, session, memo, returned,
                   calls, effects, events, clock, dash, index,
                   perms, shop, race>>

RankNext == Rearrange

SpecRank == RankInit /\ [][RankNext]_vars

(***************************************************************************)
(* Claims about the widget ranker                                          *)
(***************************************************************************)
\* the key the contract states: priority (1 when missing), then the size tier
\* small=1, big=2, full=3 (small when missing, 1 when unknown)
ContractPriority(w) == IF "priority" \in w.keys THEN w.priority ELSE 1

ContractTier(w) ==
    IF "display_size" \notin w.keys THEN 1
    ELSE IF w.display_size = "big" THEN 2
    ELSE IF w.display_size = "full" THEN 3
    ELSE 1

ContractKeyLess(a, b) ==
    \/ ContractPriority(a) < ContractPriority(b)
    \/ /\ ContractPriority(a) = ContractPriority(b)
       /\ ContractTier(a) < ContractTier(b)

ContractKeyEqual(a, b) ==
    /\ ContractPriority(a) = ContractPriority(b)
    /\ ContractTier(a) = ContractTier(b)

\* the position of the widget with identity id in the list s
PosOf(s, id) == CHOOSE i \in DOMAIN s : s[i].id = id

\* C1: rearrange returns a permutation of its input in descending order of
\* (priority, size_tier), priority defaulting to 1, a missing or unknown
\* display_size counting as tier 1; widgets with equal keys keep their input
\* order, and the input list is not modified.
C1_RearrangeContract ==
    /\ \A i \in DOMAIN widgets : widgets[i].id = i
    /\ ranked.done =>
        /\ Len(ranked.out) = Len(widgets)
        /\ Range(ranked.out) = Range(widgets)
        /\ \A i, j \in DOMAIN ranked.out :
              i < j =>
                /\ ~ContractKeyLess(ranked.out[i], ranked.out[j])
                /\ ContractKeyEqual(ranked.out[i], ranked.out[j])
                      => ranked.out[i].id < ranked.out[j].id

\* a ranked list of three widgets, one with an unknown display_size, one with
\* no priority, two of them with equal keys, whose order the ranking changed
C1_Witness ==
    /\ ranked.done
    /\ Len(widgets) = 3
    /\ ranked.out # widgets
    /\ \E i \in DOMAIN widgets :
          "display_size" \in widgets[i].keys /\ widgets[i].display_size = "huge"
    /\ \E i \in DOMAIN widgets : "priority" \notin widgets[i].keys
    /\ \E i, j \in DOMAIN widgets : i # j /\ ContractKeyEqual(widgets[i], widgets[j])

\* C2 as stated: a higher priority comes first, and two widgets of equal
\* priority keep their original relative order.
C2_AsStated ==
    ranked.done =>
        \A i, j \in DOMAIN widgets :
            LET a == widgets[i]
                b == widgets[j]
            IN /\ ContractPriority(a) > ContractPriority(b)
                    => PosOf(ranked.out, a.id) < PosOf(ranked.out, b.id)
               /\ (i < j /\ ContractPriority(a) = ContractPriority(b))
                    => PosOf(ranked.out, a.id) < PosOf(ranked.out, b.id)

\* C2 amended: a higher priority comes first; among widgets of equal priority
\* the larger size tier comes first, and two widgets of equal priority and
\* equal size tier keep their original relative order.
C2_PriorityThenTierStable ==
    ranked.done =>
        \A i, j \in DOMAIN widgets :
            LET a == widgets[i]
                b == widgets[j]
            IN /\ ContractPriority(a) > ContractPriority(b)
                    => PosOf(ranked.out, a.id) < PosOf(ranked.out, b.id)
               /\ (ContractPriority(a) = ContractPriority(b)
                      /\ ContractTier(a) > ContractTier(b))
                    => PosOf(ranked.out, a.id) < PosOf(ranked.out, b.id)
               /\ (i < j /\ ContractKeyEqual(a, b))
                    => PosOf(ranked.out, a.id) < PosOf(ranked.out, b.id)

\* a ranked list where a later widget of higher priority was moved to the
\* front and two widgets of equal priority and tier are present
C2_Witness ==
    /\ ranked.done
    /\ \E i, j \in DOMAIN widgets :
          /\ i < j
          /\ ContractPriority(widgets[i]) < ContractPriority(widgets[j])
          /\ PosOf(ranked.out, widgets[j].id) < PosOf(ranked.out, widgets[i].id)
    /\ \E i, j \in DOMAIN widgets : i < j /\ ContractKeyEqual(widgets[i], widgets[j])

(***************************************************************************)
(* Specifications of the context enrichment                                *)
(***************************************************************************)
Events == [live : BOOLEAN, testmode : BOOLEAN, has_domain : BOOLEAN,
           testmode_orders : BOOLEAN, has_subevents : {TRUE},
           subevents : {SubEventPks}]

Sessions == [session_key : {"k1"}, child_session : {None} \cup SessionKeys,
             event_access : BOOLEAN]

FreshRequest ==
    /\ memo = [has |-> FALSE, ctx |-> EmptyCtx]
    /\ returned = EmptyCtx
    /\ calls = 0
    /\ effects = NoEffects

\* contextprocessor without the hasattr test: every call recomputes
contextprocessor_recompute(req, ev, ca, se, me, eff) ==
    LET r == default_context(req, ev, ca, se, eff)
    IN [memo |-> [has |-> TRUE, ctx |-> r.ctx], returned |-> r.ctx,
        cache |-> r.cache, session |-> r.session, effects |-> r.effects]

\* contextprocessor(request): what the call leaves and returns
contextprocessor(req, ev, ca, se, me, eff) ==
    IF ~me.has
    THEN LET r == default_context(req, ev, ca, se, eff)
         IN [memo |-> [has |-> TRUE, ctx |-> r.ctx], returned |-> r.ctx,
             cache |-> r.cache, session |-> r.session, effects |-> r.effects]
    ELSE [memo |-> me, returned |-> me.ctx, cache |-> ca, session |-> se,
          effects |-> eff]

\* one call of contextprocessor on the request (a template render)
ContextProcessor ==
    /\ calls < MaxCalls
    /\ LET r == contextprocessor(request, event, cache, session, memo, effects)
       IN /\ memo' = r.memo
          /\ returned' = r.returned
          /\ cache' = r.cache
          /\ session' = r.session
          /\ effects' = r.effects
    /\ calls' = calls + 1
    /\ UNCHANGED <<widgets, ranked, request, event, events, clock, dash, index,
                   perms, shop, race>>

\* --- what other requests and the organizer do between two calls ---
\* the organizer takes the shop live, or offline again
SetLive ==
    /\ event' = [event EXCEPT !.live = ~@]
    /\ UNCHANGED <<widgets, ranked, request, cache, session, memo, returned,
                   calls, effects, events, clock, dash, index,
                   perms, shop, race>>

\* a test-mode order is placed, or the test-mode orders are deleted
SetTestmodeOrders ==
    /\ event' = [event EXCEPT !.testmode_orders = ~@]
    /\ UNCHANGED <<widgets, ranked, request, cache, session, memo, returned,
                   calls, effects, events, clock, dash, index,
                   perms, shop, race>>

\* the cache entry expires after its 30 seconds
CacheExpires ==
    /\ cache.hit
    /\ cache' = CacheMiss
    /\ UNCHANGED <<widgets, ranked, request, event, session, memo, returned,
                   calls, effects, events, clock, dash, index,
                   perms, shop, race>>

\* the session loses its child session (it is flushed at logout and login)
SessionFlushed ==
    /\ session.child_session # None \/ session.event_access
    /\ session' = [session EXCEPT !.child_session = None, !.event_access = FALSE]
    /\ UNCHANGED <<widgets, ranked, request, event, cache, memo, returned,
                   calls, effects, events, clock, dash, index,
                   perms, shop, race>>

\* every request against every state of the event, the cache and the session;
\* the query parameter is absent, well-formed or malformed
CtxInit ==
    /\ request \in [path : Paths, scope : Scopes, can_view_orders : BOOLEAN,
                    subevent : {<<>>, <<"1">>, <<"a">>}]
    /\ event \in Events
    /\ cache \in CacheStates
    /\ session \in Sessions
    /\ FreshRequest
    /\ RankIdle /\ DashIdle /\ IndexIdle /\ RaceIdle

CtxNext == ContextProcessor

SpecCtx == CtxInit /\ [][CtxNext]_vars

\* an authenticated, event- and organizer-scoped request with every value of
\* the query parameter
ParamInit ==
    /\ request \in [path : {"common"}, scope : {"event_organizer"},
                    can_view_orders : BOOLEAN, subevent : ParamStrings]
    /\ event \in Events
    /\ cache \in CacheStates
    /\ session \in Sessions
    /\ FreshRequest
    /\ RankIdle /\ DashIdle /\ IndexIdle /\ RaceIdle

SpecParam == ParamInit /\ [][CtxNext]_vars

\* one request, rendered several times while the event, the cache and the
\* session change under it
MemoInit ==
    /\ request \in [path : Paths, scope : Scopes, can_view_orders : {TRUE},
                    subevent : {<<>>, <<"1">>, <<"a">>}]
    /\ event \in {e \in Events : ~e.live /\ ~e.testmode /\ e.has_domain
                                  /\ ~e.testmode_orders}
    /\ cache = CacheMiss
    /\ session = IdleSession
    /\ FreshRequest
    /\ RankIdle /\ DashIdle /\ IndexIdle /\ RaceIdle

MemoNext ==
    \/ ContextProcessor
    \/ SetLive
    \/ SetTestmodeOrders
    \/ CacheExpires
    \/ SessionFlushed

SpecMemo == MemoInit /\ [][MemoNext]_vars

\* --- a sequence of requests in one session ---
\* the next request of the session arrives: nothing is memoized on it yet
NewRequest ==
    /\ calls > 0
    /\ request' \in [path : Paths, scope : Scopes, can_view_orders : {TRUE},
                     subevent : {<<>>}]
    /\ memo' = [has |-> FALSE, ctx |-> EmptyCtx]
    /\ returned' = EmptyCtx
    /\ calls' = 0
    /\ effects' = NoEffects
    /\ UNCHANGED <<widgets, ranked, event, cache, session, events, clock, dash, index,
                   perms, shop, race>>

\* the session gets a new key and keeps its data (the key is cycled at login)
CycleKey ==
    /\ \E k \in SessionKeys \ {session.session_key} :
          session' = [session EXCEPT !.session_key = k]
    /\ UNCHANGED <<widgets, ranked, request, event, cache, memo, returned,
                   calls, effects, events, clock, dash, index,
                   perms, shop, race>>

\* the organizer binds a domain to the event, or takes it away
SetDomain ==
    /\ event' = [event EXCEPT !.has_domain = ~@]
    /\ UNCHANGED <<widgets, ranked, request, cache, session, memo, returned,
                   calls, effects, events, clock, dash, index,
                   perms, shop, race>>

\* a session that has stored nothing yet, on an event of every combination
\* of live and bound domain
SessInit ==
    /\ request \in [path : Paths, scope : Scopes, can_view_orders : {TRUE},
                    subevent : {<<>>}]
    /\ event \in {e \in Events : ~e.testmode /\ ~e.testmode_orders}
    /\ cache = CacheMiss
    /\ session = IdleSession
    /\ FreshRequest
    /\ RankIdle /\ DashIdle /\ IndexIdle /\ RaceIdle

SessNext ==
    \/ ContextProcessor
    \/ NewRequest
    \/ CycleKey
    \/ SetLive
    \/ SetDomain

SpecSess == SessInit /\ [][SessNext]_vars

\* --- concurrent requests on one event, lines 79-96 step by step ---
\* the query without its testmode filter, on an event that has orders
orders_exist_unfiltered(ev) == TRUE

\* lines 85-87: request.event.orders.filter(testmode=True).exists()
orders_exist(ev) == ev.testmode_orders

\* a request that has not read the cache yet
RacerAtGet == [pc |-> "get", complain |-> CacheMiss, epoch |-> 0]

\* there are test-mode orders now or not, as the last change left it
Epoch == Len(race.history)

\* lines 82-84: complain_testmode_orders = request.event.cache.get(...); a
\* hit ends the block, a miss (None) goes on to the query
cache_get(p) ==
    /\ race.procs[p].pc = "get"
    /\ race' = [race EXCEPT !.procs[p] =
                    [pc |-> IF cache.hit THEN "done" ELSE "query",
                     complain |-> cache, epoch |-> 0]]
    /\ UNCHANGED <<widgets, ranked, request, event, cache, session, memo, returned,
                   calls, effects, events, clock, dash, index, perms, shop>>

\* lines 85-87: the query whether a test-mode order exists
orders_query(p) ==
    /\ race.procs[p].pc = "query"
    /\ race' = [race EXCEPT !.procs[p] =
                    [pc |-> "set", complain |-> CacheOf(orders_exist(event)),
                     epoch |-> Epoch]]
    /\ UNCHANGED <<widgets, ranked, request, event, cache, session, memo, returned,
                   calls, effects, events, clock, dash, index, perms, shop>>

\* lines 88-90: request.event.cache.set("complain_testmode_orders", value, 30)
cache_set(p) ==
    /\ race.procs[p].pc = "set"
    /\ cache' = race.procs[p].complain
    /\ race' = [race EXCEPT
                    !.procs[p].pc = "done",
                    !.writes = Append(@, [proc |-> p,
                                          value |-> race.procs[p].complain.value,
                                          epoch |-> race.procs[p].epoch])]
    /\ UNCHANGED <<widgets, ranked, request, event, session, memo, returned,
                   calls, effects, events, clock, dash, index, perms, shop>>

\* a test-mode order is placed, or the test-mode orders are deleted, while
\* requests are under way
OrdersChange ==
    /\ Len(race.history) <= MaxChanges
    /\ \E p \in DOMAIN race.procs : race.procs[p].pc # "done"
    /\ event' = [event EXCEPT !.testmode_orders = ~@]
    /\ race' = [race EXCEPT !.history = Append(@, ~event.testmode_orders)]
    /\ UNCHANGED <<widgets, ranked, request, cache, session, memo, returned,
                   calls, effects, events, clock, dash, index, perms, shop>>

\* one to MaxRacers requests on an event that is not in test mode, whose
\* cache entry is missing
RaceInit ==
    /\ request = [path |-> "common", scope |-> "event_organizer",
                  can_view_orders |-> TRUE, subevent |-> <<>>]
    /\ event \in {e \in Events : ~e.testmode /\ ~e.live /\ ~e.has_domain}
    /\ cache = CacheMiss
    /\ session = IdleSession
    /\ FreshRequest
    /\ \E n \in 1..MaxRacers :
          race = [procs |-> [p \in 1..n |-> RacerAtGet], writes |-> <<>>,
                  history |-> <<event.testmode_orders>>]
    /\ RankIdle /\ DashIdle /\ IndexIdle

RaceNext ==
    \/ \E p \in DOMAIN race.procs : cache_get(p)
    \/ \E p \in DOMAIN race.procs : orders_query(p)
    \/ \E p \in DOMAIN race.procs : cache_set(p)
    \/ OrdersChange
    \/ CacheExpires

SpecRace == RaceInit /\ [][RaceNext]_vars

(***************************************************************************)
(* Claims about the context enrichment                                     *)
(***************************************************************************)
\* the request has been rendered and its context holds the test-mode flag
HasTestmodeFlag == calls >= 1 /\ "complain_testmode_orders" \in returned.keys

\* C3 as stated: in the context of an event-scoped request, event.live implies
\* that complain_testmode_orders is False, whatever the cache entry, the
\* testmode flag and the permissions are.
C3_AsStated ==
    (HasTestmodeFlag /\ event.live) => ~returned.complain_testmode_orders

\* C3 amended: in the context of an event-scoped request, event.testmode
\* implies that complain_testmode_orders is False, whatever the cache entry,
\* the live flag and the permissions are.
C3_TestmodeSuppressesFlag ==
    (HasTestmodeFlag /\ event.testmode) => ~returned.complain_testmode_orders

\* an event in test mode, live, whose cache entry says True, seen by a user
\* who may view orders
C3_Witness ==
    /\ HasTestmodeFlag
    /\ event.testmode /\ event.live
    /\ cache = CacheOf(TRUE)
    /\ request.can_view_orders

\* C4: _default_context runs once per request: every call after the first
\* returns the context the first returned and makes no session write, cache
\* read or write, or database query, whatever happened to the session, the
\* cache and the event in between.
C4_ComputedOncePerRequest ==
    [][(calls >= 1 /\ calls' = calls + 1) =>
          /\ returned' = returned
          /\ effects' = effects
          /\ effects'.runs = 1
          /\ cache' = cache
          /\ session' = session]_vars

\* a second call made after the event, cache or session changed so that a
\* recomputation would return another context
C4_Witness ==
    /\ calls >= 2
    /\ effects.runs = 1
    /\ returned # default_context(request, event, cache, session, NoEffects).ctx

\* C5: for a path that does not resolve, or is not under the prefix,
\* _default_context returns the empty context, raises nothing and leaves
\* the session and the cache entry as they were.
C5_EmptyContextOutsidePrefix ==
    [][(request.path # "common" /\ calls' = calls + 1) =>
          /\ returned'.keys = {}
          /\ returned' = EmptyCtx
          /\ effects'.raised = None
          /\ cache' = cache
          /\ session' = session]_vars

\* such a request, event- and organizer-scoped, on an event that is not live
\* and has a domain, with an empty cache and no child session
C5_Witness ==
    /\ calls >= 1
    /\ request.path = "outside"
    /\ request.scope = "event_organizer"
    /\ ~event.live /\ event.has_domain /\ ~event.testmode
    /\ returned.keys = {}
    /\ cache = CacheMiss
    /\ session.child_session = None

\* the decimal numeral of n, in the characters of Chars
RECURSIVE Numeral(_)
Numeral(n) ==
    IF n < 10 THEN <<IF n = 1 THEN "1" ELSE IF n = 2 THEN "2" ELSE "?">>
    ELSE Numeral(n \div 10) \o Numeral(n % 10)

\* the string without its leading and trailing blanks
Trimmed(s) ==
    LET inner == {i \in DOMAIN s : s[i] # " "}
    IN IF inner = {} THEN <<>>
       ELSE LET lo == CHOOSE i \in inner : \A j \in inner : i <= j
                hi == CHOOSE i \in inner : \A j \in inner : j <= i
            IN SubSeq(s, lo, hi)

\* a decimal numeral: at least one digit, digits only
Parseable(s) == Trimmed(s) # <<>> /\ Range(Trimmed(s)) \subseteq {"1", "2"}

RECURSIVE Pow10(_)
Pow10(n) == IF n = 0 THEN 1 ELSE 10 * Pow10(n - 1)

\* the number a parseable string is the numeral of
ValueOf(s) == CHOOSE n \in 0..Pow10(Len(s)) : Numeral(n) = Trimmed(s)

\* C6: for an authenticated, event- and organizer-scoped request whose subevent
\* parameter is non-empty and not an integer, _default_context raises nothing,
\* logs the error, returns a context without selected_subevents, and every
\* other key and side effect is that of the request without the parameter;
\* when the parameter parses, selected_subevents is the set of the event's
\* sub-occurrences with that primary key.
C6_MalformedSubeventIgnored ==
    [][(request.subevent # <<>> /\ calls = 0 /\ calls' = 1) =>
          LET plain == default_context([request EXCEPT !.subevent = <<>>],
                                       event, cache, session, effects)
          IN /\ effects'.raised = None
             /\ cache' = plain.cache
             /\ session' = plain.session
             /\ [effects' EXCEPT !.logged = 0] = plain.effects
             /\ IF Parseable(request.subevent)
                THEN /\ "selected_subevents" \in returned'.keys
                     /\ returned'.selected_subevents =
                            event.subevents \cap {ValueOf(request.subevent)}
                     /\ [returned' EXCEPT !.keys = @ \ {"selected_subevents"},
                                          !.selected_subevents = {}] = plain.ctx
                     /\ effects'.logged = 0
                ELSE /\ "selected_subevents" \notin returned'.keys
                     /\ returned' = plain.ctx
                     /\ effects'.logged = 1]_vars

\* a rendered request whose parameter was malformed: the error is logged, the
\* key is absent, the child session is stored all the same
C6_Witness ==
    /\ calls = 1
    /\ request.subevent # <<>>
    /\ ~Parseable(request.subevent)
    /\ effects.logged = 1
    /\ "selected_subevents" \notin returned.keys
    /\ "has_domain" \in returned.keys
    /\ session.event_access

\* a rendered request whose parameter names an existing sub-occurrence
C6_WitnessParsed ==
    /\ calls = 1
    /\ Len(request.subevent) > 1
    /\ Parseable(request.subevent)
    /\ returned.selected_subevents # {}

\* the request reaches the child-session block: it is authenticated, event-
\* and organizer-scoped and under the common prefix
ReachesEventBlock == request.path = "common" /\ request.scope = "event_organizer"

\* this step is the one run of _default_context on the request
Served == ~memo.has /\ memo'.has

\* C12: across a sequence of requests in one session, a request
\* (authenticated, event- and organizer-scoped, under the common prefix) for
\* an event that is not live and has a bound domain stores the current session
\* key under child_session_<pk> and has no new_session in its context when
\* nothing is stored yet, and otherwise leaves the stored value as it is and
\* has exactly that value as new_session; it sets event_access to True; the
\* stored value is never changed afterwards. A request for an event that is
\* live or has no bound domain writes neither key.
C12_ChildSessionStoredOnce ==
    [][/\ (Served /\ ReachesEventBlock /\ ~event.live /\ event.has_domain) =>
            /\ session.child_session = None =>
                  /\ session'.child_session = session.session_key
                  /\ "new_session" \notin returned'.keys
            /\ session.child_session # None =>
                  /\ session'.child_session = session.child_session
                  /\ "new_session" \in returned'.keys
                  /\ returned'.new_session = session.child_session
            /\ session'.event_access
       /\ (Served /\ (event.live \/ ~event.has_domain)) =>
            /\ session' = session
            /\ effects'.session_writes = effects.session_writes
       /\ session.child_session # None =>
            session'.child_session = session.child_session]_vars

\* a later request, made after the session key was cycled: its context has
\* the key stored by the first request, not the current one
C12_Witness ==
    /\ calls > 0
    /\ ReachesEventBlock
    /\ ~event.live /\ event.has_domain
    /\ "new_session" \in returned.keys
    /\ returned.new_session = session.child_session
    /\ session.child_session # session.session_key
    /\ session.event_access

\* the first request: the key is stored and the context has no new_session
C12_WitnessFirst ==
    /\ calls > 0
    /\ ReachesEventBlock
    /\ ~event.live /\ event.has_domain
    /\ "new_session" \notin returned.keys
    /\ session.child_session = session.session_key
    /\ session.event_access

C13_WitnessSame ==
    /\ \A p \in DOMAIN race.procs : race.procs[p].pc = "done"
    /\ \E i, j \in DOMAIN race.writes :
          i < j /\ race.writes[i].epoch = race.writes[j].epoch
    /\ cache.hit

(***************************************************************************)
(* Specifications of the dashboards                                        *)
(***************************************************************************)
\* the readings of now() a handler makes: the clock never goes back, and
\* advances by at most MaxDrift while the handler runs
Readings(t) ==
    {n \in [1..4 -> t..(t + MaxDrift)] : \A i \in 1..3 : n[i] <= n[i + 1]}

DashResponse(handler, b, json) ==
    [handler |-> handler, order_to |-> b.order_to, matched |-> b.matched,
     upcoming |-> b.upcoming, past |-> b.past, series |-> b.series, widgets |-> json]

\* organiser_dashboard(request): the three buckets of the template context
organiser_dashboard ==
    /\ dash.handler = None
    /\ \E db \in Backends, n \in Readings(clock) :
          LET b == Buckets(events, db, TRUE, n[1], n[2], n[3], n[4])
          IN /\ dash' = DashResponse("organiser_dashboard", b, <<>>)
             /\ clock' = n[4]
    /\ UNCHANGED <<widgets, ranked, request, event, cache, session, memo, returned,
                   calls, effects, events, index,
                   perms, shop, race>>

\* user_index_widgets_lazy(request): the widgets of the three buckets, in one list
user_index_widgets_lazy ==
    /\ dash.handler = None
    /\ \E db \in Backends, n \in Readings(clock) :
          LET b == Buckets(events, db, FALSE, n[1], n[2], n[3], n[4])
          IN /\ dash' = DashResponse("user_index_widgets_lazy", b,
                                     b.upcoming \o b.past \o b.series)
             /\ clock' = n[4]
    /\ UNCHANGED <<widgets, ranked, request, event, cache, session, memo, returned,
                   calls, effects, events, index,
                   perms, shop, race>>

DashNext == organiser_dashboard \/ user_index_widgets_lazy

\* every table of up to MaxEvents events
DashInit ==
    /\ events \in SeqsUpTo(EventRows, MaxEvents)
    /\ clock \in Dates
    /\ dash = IdleDash
    /\ RankIdle /\ CtxIdle /\ IndexIdle /\ RaceIdle

SpecDash == DashInit /\ [][DashNext]_vars

\* the kinds of events of the long tables
ListedRows ==
    {e \in SingleEvents :
        <<e.date_from, e.date_to>> \in
            {<<1, 1>>, <<2, NULL>>, <<3, NULL>>, <<4, NULL>>, <<3, 4>>}}
    \cup {e \in SeriesEvents :
            /\ e.date_to = NULL
            /\ e.subevents \in {{[date_from |-> 1, date_to |-> NULL]},
                                {[date_from |-> 2, date_to |-> NULL]}}}

\* the tables of up to MaxListed events that repeat a cycle of one, two or
\* three kinds of events
ListedTables ==
    {[pk \in 1..n |-> cycle[((pk - 1) % Len(cycle)) + 1]] :
        n \in 0..MaxListed, cycle \in UNION {[1..k -> ListedRows] : k \in 1..3}}

ListedInit ==
    /\ events \in ListedTables
    /\ clock = 2
    /\ dash = IdleDash
    /\ RankIdle /\ CtxIdle /\ IndexIdle /\ RaceIdle

ListedNext == organiser_dashboard

SpecListed == ListedInit /\ [][ListedNext]_vars

(***************************************************************************)
(* Claims about the dashboards                                             *)
(***************************************************************************)
DashDone == dash.handler # None

\* C7: in one run of organiser_dashboard or user_index_widgets_lazy, every
\* event without sub-occurrences satisfies exactly one of the 'upcoming' and
\* 'past' filters, also when the clock advances between the two filters.
C7_UpcomingPastPartition ==
    DashDone =>
        \A pk \in DOMAIN events :
            ~events[pk].has_subevents =>
                (pk \in dash.matched.upcoming) # (pk \in dash.matched.past)

\* the largest member of a non-empty set of instants
Latest(S) == CHOOSE m \in S : \A x \in S : x <= m

\* the first value of a chain that is not NULL
FirstNonNull(chain) ==
    LET set == {i \in DOMAIN chain : chain[i] # NULL}
    IN IF set = {} THEN NULL
       ELSE chain[CHOOSE i \in set : \A j \in set : i <= j]

\* the maximum of a column over the sub-occurrences, NULL when no value is there
SubMax(e, column) ==
    LET S == {IF column = "date_to" THEN sub.date_to ELSE sub.date_from :
                 sub \in e.subevents} \ {NULL}
    IN IF S = {} THEN NULL ELSE Latest(S)

\* C8: order_to is the first non-null value of the chain (greatest of max
\* sub-occurrence date_to and date_from, max date_to, max date_from, own
\* date_to, own date_from), whether the greatest skips a NULL or yields NULL;
\* an event without sub-occurrences and without date_to gets its date_from,
\* and an event with a sub-occurrence gets the latest date of its
\* sub-occurrences, not one of its own dates.
C8_OrderToChain ==
    DashDone =>
        \A pk \in DOMAIN events :
            LET e == events[pk]
                mt == SubMax(e, "date_to")
                mf == SubMax(e, "date_from")
                skipping == IF {mt, mf} = {NULL} THEN NULL ELSE Latest({mt, mf} \ {NULL})
                yielding == IF NULL \in {mt, mf} THEN NULL ELSE Latest({mt, mf})
            IN /\ dash.order_to[pk] =
                     FirstNonNull(<<skipping, mt, mf, e.date_to, e.date_from>>)
               /\ dash.order_to[pk] =
                     FirstNonNull(<<yielding, mt, mf, e.date_to, e.date_from>>)
               /\ (e.subevents = {} /\ e.date_to = NULL)
                     => dash.order_to[pk] = e.date_from
               /\ e.subevents # {}
                     => dash.order_to[pk] =
                          Latest(UNION {{sub.date_from, sub.date_to} \ {NULL} :
                                           sub \in e.subevents})

\* a series whose own dates are later than every date of its sub-occurrences,
\* one of which has no date_to and another has one
C8_Witness ==
    /\ DashDone
    /\ \E pk \in DOMAIN events :
          /\ dash.order_to[pk] < events[pk].date_from
          /\ \E sub \in events[pk].subevents : sub.date_to = NULL
          /\ \E sub \in events[pk].subevents : sub.date_to # NULL

\* the event a widget stands for, from its lazy token 'event-<pk>'
PkOf(widget) == widget.lazy[2]

\* the order of a bucket: upcoming by ascending (date_from, order_to, pk), past
\* and series by descending order_to, then ascending pk
Before(bucket, pk1, pk2) ==
    LET a == events[pk1]
        b == events[pk2]
        oa == dash.order_to[pk1]
        ob == dash.order_to[pk2]
    IN IF bucket = "upcoming"
       THEN \/ a.date_from < b.date_from
            \/ a.date_from = b.date_from /\ oa < ob
            \/ a.date_from = b.date_from /\ oa = ob /\ pk1 < pk2
       ELSE \/ oa > ob
            \/ oa = ob /\ pk1 < pk2

\* the widgets are the first nmax events of the matched set in the bucket's order
FirstOf(bucket, ws, matched, nmax) ==
    LET shown == {PkOf(ws[i]) : i \in DOMAIN ws}
    IN /\ Len(ws) <= nmax
       /\ Len(ws) = IF Cardinality(matched) < nmax THEN Cardinality(matched) ELSE nmax
       /\ shown \subseteq matched
       /\ \A i \in DOMAIN ws : ws[i].lazy = <<"event", PkOf(ws[i])>>
       /\ \A i, j \in DOMAIN ws : i < j => Before(bucket, PkOf(ws[i]), PkOf(ws[j]))
       /\ \A i \in DOMAIN ws : \A pk \in matched \ shown : Before(bucket, PkOf(ws[i]), pk)

\* C9: each bucket is the first N events of its filtered set in its own order
\* and never holds more than N widgets (upcoming: ascending (date_from,
\* order_to, pk), N=7; past and series: descending order_to, ascending pk,
\* N=8); an upcoming event without date_to comes before every shown event
\* of a later date_from; each widget carries the token of its event.
C9_BucketsOrderedAndCapped ==
    DashDone =>
        /\ FirstOf("upcoming", dash.upcoming, dash.matched.upcoming, 7)
        /\ FirstOf("past", dash.past, dash.matched.past, 8)
        /\ FirstOf("series", dash.series, dash.matched.series, 8)
        /\ \A i, j \in DOMAIN dash.upcoming :
              LET a == events[PkOf(dash.upcoming[i])]
                  b == events[PkOf(dash.upcoming[j])]
              IN (a.date_to = NULL /\ a.date_from < b.date_from) => i < j

\* more than seven upcoming events, of which seven are shown, an event of date
\* 3 without date_to ahead of an event of date 4 created before it
C9_Witness ==
    /\ DashDone
    /\ Cardinality(dash.matched.upcoming) > 7
    /\ Len(dash.upcoming) = 7
    /\ \E i, j \in DOMAIN dash.upcoming :
          LET a == PkOf(dash.upcoming[i])
              b == PkOf(dash.upcoming[j])
          IN /\ i < j /\ b < a
             /\ events[a].date_from = 3 /\ events[a].date_to = NULL
             /\ events[b].date_from = 4

\* more than eight past events, of which eight are shown
C9_WitnessPast ==
    DashDone /\ Cardinality(dash.matched.past) > 8 /\ Len(dash.past) = 8

\* more than eight series, of which eight are shown
C9_WitnessSeries ==
    DashDone /\ Cardinality(dash.matched.series) > 8 /\ Len(dash.series) = 8

(***************************************************************************)
(* Event index: dashboards.py, event_index and event_index_widgets_lazy    *)
(***************************************************************************)
\* request.event.subevents.get(pk=i), i the raw query string: the lookup
\* converts i with int(), which raises ValueError for a string that is no
\* integer; no row raises SubEvent.DoesNotExist
subevents_get(ev, i) ==
    LET parsed == int(i)
    IN IF ~parsed.ok THEN [raised |-> "ValueError", subevent |-> NULL]
       ELSE IF parsed.value \in ev.subevents
            THEN [raised |-> None, subevent |-> parsed.value]
            ELSE [raised |-> "DoesNotExist", subevent |-> NULL]

\* lines 349-355 and 440-446: the selection of the sub-occurrence; only
\* SubEvent.DoesNotExist is caught
select_subevent(req, ev) ==
    IF req.subevent # <<>> /\ ev.has_subevents
    THEN LET got == subevents_get(ev, req.subevent)
         IN IF got.raised = "DoesNotExist"
            THEN [raised |-> None, subevent |-> NULL]
            ELSE got
    ELSE [raised |-> None, subevent |-> NULL]

\* request.user.has_event_permission(organizer, event, name, request=request)
has_event_permission(req, ps, name) ==
    IF name = "can_view_orders" THEN req.can_view_orders ELSE name \in ps

\* mutant of logs_feed: the entries about orders are not taken out
logs_feed_orders_kept(req, ps, sh) ==
    LET allowed == {"Voucher", "Order"}
                   \cup IF has_event_permission(req, ps, "can_change_items")
                        THEN {"Item", "ItemCategory", "Quota", "Question"}
                        ELSE {}
        keep(e) ==
            /\ ~e.banned
            /\ has_event_permission(req, ps, "can_view_vouchers")
                \/ e.content_type # "Voucher"
            /\ has_event_permission(req, ps, "can_change_event_settings")
                \/ e.content_type \in allowed
        qs == SelectSeq(sh.logs, keep)
    IN SubSeq(qs, 1, Min({Len(qs), LogsMax}))

\* lines 371-390 and 396: the log of the event, newest first (sh.logs is kept
\* in that order), without the banned action types, without the entries
\* about orders and vouchers the user may not see, narrowed to the allowed
\* content types for a user who may not change the event settings, and cut
\* to its first five
logs_feed(req, ps, sh) ==
    LET allowed == {"Voucher", "Order"}
                   \cup IF has_event_permission(req, ps, "can_change_items")
                        THEN {"Item", "ItemCategory", "Quota", "Question"}
                        ELSE {}
        keep(e) ==
            /\ ~e.banned
            /\ has_event_permission(req, ps, "can_view_orders")
                \/ e.content_type # "Order"
            /\ has_event_permission(req, ps, "can_view_vouchers")
                \/ e.content_type # "Voucher"
            /\ has_event_permission(req, ps, "can_change_event_settings")
                \/ e.content_type \in allowed
        qs == SelectSeq(sh.logs, keep)
    IN SubSeq(qs, 1, Min({Len(qs), LogsMax}))

\* lines 392 and 398: the first five open required actions (numbered in
\* their order), for a user who may change orders
actions_feed(req, ps, sh) ==
    IF has_event_permission(req, ps, "can_change_orders")
    THEN [i \in 1..Min({sh.required_actions, ActionsMax}) |-> i]
    ELSE <<>>

\* lines 366-369 and 395: the widgets the signal receivers return, asked
\* for only when the user may view orders, then rearranged
index_widgets(req, sh) ==
    IF has_event_permission(req, {}, "can_view_orders")
    THEN rearrange(sh.widgets)
    ELSE rearrange(<<>>)

\* lines 402-419: can_view_orders and <the query>.exists()
order_flag(req, sh, fact) ==
    has_event_permission(req, {}, "can_view_orders") /\ fact \in sh.facts

\* lines 357-419: the template context event_index builds
index_context(req, ps, sh) ==
    [widgets |-> index_widgets(req, sh),
     logs |-> logs_feed(req, ps, sh),
     actions |-> actions_feed(req, ps, sh),
     has_overpaid_orders |-> order_flag(req, sh, "overpaid"),
     has_pending_orders_with_full_payment |-> order_flag(req, sh, "pending_full_payment"),
     has_pending_refunds |-> order_flag(req, sh, "pending_refund"),
     has_pending_approvals |-> order_flag(req, sh, "pending_approval"),
     has_cancellation_requests |-> order_flag(req, sh, "cancellation_request")]

\* event_index(request, organizer, event): the sub-occurrence it goes on
\* with and the context it renders, or the exception that leaves it before
\* any context is built
event_index ==
    /\ index.handler = None
    /\ LET sel == select_subevent(request, event)
       IN index' = [handler |-> "event_index", raised |-> sel.raised,
                    subevent |-> sel.subevent,
                    built |-> sel.raised = None,
                    ctx |-> IF sel.raised = None
                            THEN index_context(request, perms, shop)
                            ELSE IdleIndexCtx]
    /\ UNCHANGED <<widgets, ranked, request, event, cache, session, memo, returned,
                   calls, effects, events, clock, dash,
                   perms, shop, race>>

\* event_index_widgets_lazy(request, organizer, event): the widgets of the
\* signal receivers as they come, under no permission test of its own
event_index_widgets_lazy ==
    /\ index.handler = None
    /\ LET sel == select_subevent(request, event)
       IN index' = [handler |-> "event_index_widgets_lazy", raised |-> sel.raised,
                    subevent |-> sel.subevent,
                    built |-> FALSE,
                    ctx |-> IF sel.raised = None
                            THEN [IdleIndexCtx EXCEPT !.widgets = shop.widgets]
                            ELSE IdleIndexCtx]
    /\ UNCHANGED <<widgets, ranked, request, event, cache, session, memo, returned,
                   calls, effects, events, clock, dash,
                   perms, shop, race>>

IndexNext == event_index \/ event_index_widgets_lazy

\* every value of the query parameter against an event with or without
\* sub-occurrences
IndexInit ==
    /\ request \in [path : {"common"}, scope : {"event_organizer"},
                    can_view_orders : {TRUE}, subevent : ParamStrings]
    /\ event \in {e \in [live : {FALSE}, testmode : {FALSE}, has_domain : {FALSE},
                         testmode_orders : {FALSE}, has_subevents : BOOLEAN,
                         subevents : SUBSET {1, 2}] :
                     e.has_subevents \/ e.subevents = {}}
    /\ cache = CacheMiss
    /\ session = IdleSession
    /\ FreshRequest
    /\ IndexIdle
    /\ RankIdle /\ DashIdle /\ RaceIdle

SpecIndex == IndexInit /\ [][IndexNext]_vars

\* the event permissions besides can_view_orders the index asks for
Perms == {"can_change_orders", "can_change_event_settings", "can_view_vouchers",
          "can_change_items"}

\* the order queries behind the five warning flags
Facts == {"overpaid", "pending_full_payment", "pending_refund", "pending_approval",
          "cancellation_request"}

\* log entries: about an order, a voucher, a product, the event itself, and
\* one of a banned action type
LogEntries ==
    [content_type : {"Order", "Voucher", "Item", "Event"}, banned : {FALSE}]
        \cup {[content_type |-> "Order", banned |-> TRUE]}

\* what the signal receivers return: nothing, or two widgets out of order
SignalWidgets ==
    {<<>>,
     <<[id |-> 1, keys |-> {"priority", "display_size"}, priority |-> 1,
        display_size |-> "small"],
       [id |-> 2, keys |-> {"priority", "display_size"}, priority |-> 2,
        display_size |-> "full"]>>}

Shops ==
    [widgets : SignalWidgets,
     logs : SeqsUpTo(LogEntries, MaxLogs),
     required_actions : {0, ActionsMax + 1},
     facts : {{}, Facts} \cup {{f} : f \in Facts}]

\* every set of permissions against every shop; the query parameter is
\* absent or no integer
PermInit ==
    /\ request \in [path : {"common"}, scope : {"event_organizer"},
                    can_view_orders : BOOLEAN, subevent : {<<>>, <<"a">>}]
    /\ event = [IdleEvent EXCEPT !.has_subevents = TRUE, !.subevents = {1}]
    /\ cache = CacheMiss
    /\ session = IdleSession
    /\ FreshRequest
    /\ index = IdleIndex
    /\ perms \in SUBSET Perms
    /\ shop \in Shops
    /\ RankIdle /\ DashIdle /\ RaceIdle

PermNext == event_index

SpecPerm == PermInit /\ [][PermNext]_vars

(***************************************************************************)
(* Claims about the event index                                            *)
(***************************************************************************)
\* the parameter names a sub-occurrence of the event
NamesSubevent == Parseable(request.subevent) /\ ValueOf(request.subevent) \in event.subevents

\* C10: for every value of the subevent parameter (empty, the id of no
\* sub-occurrence, a string that is no integer) event_index and
\* event_index_widgets_lazy let no exception out, and go on with
\* subevent = None when the parameter names no sub-occurrence of the event.
C10_NoExceptionOnSubeventParameter ==
    index.handler # None =>
        /\ index.raised = None
        /\ ~NamesSubevent => index.subevent = NULL

\* event_index has built its context
IndexBuilt == index.handler = "event_index" /\ index.built

\* the content types of the entries in the log feed
FeedTypes == {index.ctx.logs[i].content_type : i \in DOMAIN index.ctx.logs}

\* C11: in the context event_index builds for a viewer without
\* can_view_orders, whatever the other permissions are, the widget list is
\* empty, the five warning flags are false and the log feed has no entry
\* about an order; without can_view_vouchers the log feed has no entry about
\* a voucher; without can_change_orders the feed of required actions is
\* empty.
C11_FeedsFollowPermissions ==
    IndexBuilt =>
        /\ ~request.can_view_orders =>
              /\ index.ctx.widgets = <<>>
              /\ ~index.ctx.has_overpaid_orders
              /\ ~index.ctx.has_pending_orders_with_full_payment
              /\ ~index.ctx.has_pending_refunds
              /\ ~index.ctx.has_pending_approvals
              /\ ~index.ctx.has_cancellation_requests
              /\ "Order" \notin FeedTypes
        /\ "can_view_vouchers" \notin perms => "Voucher" \notin FeedTypes
        /\ "can_change_orders" \notin perms => index.ctx.actions = <<>>

\* a viewer who holds every permission but can_view_orders, on a shop with
\* widgets, an order in its log, open actions and every order warning due
C11_Witness ==
    /\ IndexBuilt
    /\ ~request.can_view_orders
    /\ perms = Perms
    /\ shop.widgets # <<>>
    /\ shop.facts = Facts
    /\ shop.required_actions > 0
    /\ \E i \in DOMAIN shop.logs :
          shop.logs[i].content_type = "Order" /\ ~shop.logs[i].banned
    /\ index.ctx.actions # <<>>

\* a viewer without can_view_vouchers and can_change_orders who may view
\* orders, on a shop with a voucher in its log and open actions
C11_WitnessVouchers ==
    /\ IndexBuilt
    /\ request.can_view_orders
    /\ perms = {"can_change_event_settings"}
    /\ shop.required_actions > 0
    /\ \E i \in DOMAIN shop.logs : shop.logs[i].content_type = "Voucher"
    /\ index.ctx.widgets # <<>>

====
